---- MODULE Spec2Model ----
(***************************************************************************)
(* A model of roslibjs' TFClient (src/tf/TFClient.js): a client that lets  *)
(* callers subscribe to TF frames by name, coalesces the subscriptions     *)
(* into one RepublishTFs service request per debounce window, and fans     *)
(* the transforms of the republished topic out to the callbacks.           *)
(*                                                                         *)
(* Strings are sequences of one-character strings, so that frameID[0] and  *)
(* frameID.substring(1) are Head-tests and Tail.  Numbers with a           *)
(* fractional part are counted in hundredths (2.0 is 200, 0.01 is 1).      *)
(* JavaScript's undefined / false is a value of its own: Undefined for a   *)
(* missing transform, False for "no topic", "undefined" for a property     *)
(* never assigned.                                                         *)
(*                                                                         *)
(* Callbacks are opaque observers: a callback only receives the transform  *)
(* and does not call back into the client while it runs.  Frame names are  *)
(* names that Object.prototype does not define ("constructor", "toString"  *)
(* and the like are not among them), so that frameInfos[frameID] is        *)
(* undefined exactly when the frame has no entry.                          *)
(***************************************************************************)
EXTENDS Integers, Sequences, FiniteSets, TLC

(***************************************************************************)
(* Bounds of the exploration.                                              *)
(***************************************************************************)
MaxSubs     == 2   \* callbacks registered at one time, over all frames
MaxRequests == 2   \* aggregate requests issued in one run
MaxMsgLen   == 1   \* transforms in one TFArray message

(***************************************************************************)
(* Input domains.                                                          *)
(***************************************************************************)
BaseLink == <<"b", "a", "s", "e", "_", "l", "i", "n", "k">>
Odom     == <<"o", "d", "o", "m">>

\* the frame names callers pass: a name, bare and behind one and two path
\* separators; they make the two entries "base_link" and "/base_link"
FrameIDs == { BaseLink, <<"/">> \o BaseLink, <<"/", "/">> \o BaseLink }

\* the frame names the republisher publishes: one without a separator to
\* strip and one with, one for each of the two entries
ChildFrameIDs == { BaseLink, <<"/", "/">> \o BaseLink }

\* callback handles, compared by reference
Callbacks == {"cb1", "cb2"}

Translations == { <<1, 0, 0>>, <<0, 1, 0>> }
Rotations    == { <<0, 0, 0, 1>> }

\* the entries of TFArray.transforms
StampedTransforms ==
    [ child_frame_id : ChildFrameIDs,
      transform : [translation : Translations, rotation : Rotations] ]

RECURSIVE SeqsUpTo(_, _)
SeqsUpTo(S, n) ==
    IF n = 0 THEN { <<>> }
    ELSE LET shorter == SeqsUpTo(S, n - 1)
         IN  shorter \cup { Append(s, x) : s \in { t \in shorter : Len(t) = n - 1 }, x \in S }

\* the TFArray messages of a stream
TFArrays == { [transforms |-> s] : s \in SeqsUpTo(StampedTransforms, MaxMsgLen) \ { <<>> } }

\* the options objects handed to the constructor; a falsy value (0, "",
\* undefined) stands for an option left out.  topicTimeout values are
\* multiples of a quarter second, which IEEE doubles hold exactly.
NoOptions ==
    [ fixedFrame |-> <<>>, angularThres |-> 0, transThres |-> 0, rate |-> 0,
      goalUpdateDelay |-> 0, topicTimeout |-> 0 ]
SomeOptions ==
    [ fixedFrame |-> Odom, angularThres |-> 50, transThres |-> 5, rate |-> 2000,
      goalUpdateDelay |-> 10, topicTimeout |-> 275 ]
OptionSets == { NoOptions, SomeOptions }

(***************************************************************************)
(* JavaScript values.                                                      *)
(***************************************************************************)
Undefined == [ translation |-> <<>>, rotation |-> <<>> ]
False == 0

Range(s) == { s[i] : i \in 1..Len(s) }

\* a || b, for a number and for a string
OrNumber(a, b) == IF a = 0 THEN b ELSE a
OrString(a, b) == IF a = <<>> THEN b ELSE a

\* new Transform({translation, rotation})
Transform(options) ==
    [ translation |-> options.translation, rotation |-> options.rotation ]

(***************************************************************************)
(* State.                                                                  *)
(***************************************************************************)
VARIABLES
    fixedFrame, angularThres, transThres, rate, goalUpdateDelay, topicTimeout,
    currentTopic,         \* False, or the Topic subscribed last
    frameInfos,           \* the frame entries, in insertion order
    goalUpdateRequested,
    needUpdate,
    timers,               \* setTimeout(updateGoal) calls not yet fired
    inflight,             \* service calls issued and not yet answered
    numRequests,          \* service calls issued so far
    subscribedTopics,     \* the topics the client holds a subscription on
    options,              \* the options the constructor was given
    window,               \* frames first subscribed since the timer was armed
                          \* and not unsubscribed since
    op,                   \* the handler that ran last
    out,                  \* what the handler that ran last did to the outside
    named,                \* frames with an entry that a request has named
                          \* since the entry was created
    dropped,              \* the frame whose entry the handler that ran last
                          \* deleted, if a request had named it
    received              \* frame with an entry |-> the transform of the last
                          \* update that reached the entry, Undefined if none

config == <<fixedFrame, angularThres, transThres, rate, goalUpdateDelay, topicTimeout>>
vars == <<config, currentTopic, frameInfos, goalUpdateRequested, needUpdate,
          timers, inflight, numRequests, subscribedTopics, options, window,
          op, out, named, dropped, received>>

history == <<named, dropped, received>>

\* frameID: the frame name a subscribe was given, or the frame whose entry an
\* unsubscribe deleted while it held a transform (note "deleted"); note is
\* "again" when the subscribe right after such an unsubscribe is for that frame,
\* "twice" when an unsubscribe removed a callback that the frame still has
Ran(name, frameID, note) == [ name |-> name, frameID |-> frameID, note |-> note ]

(***************************************************************************)
(* The constructor.                                                        *)
(***************************************************************************)
DefaultFixedFrame      == <<"/">> \o BaseLink
DefaultAngularThres    == 200
DefaultTransThres      == 1
DefaultRate            == 1000
DefaultGoalUpdateDelay == 50
DefaultTopicTimeout    == 200

\* TopicTimeout with the fraction of a second dropped
TopicTimeoutFloored(seconds) == [ secs |-> seconds \div 100, nsecs |-> 0 ]

\* seconds (in hundredths) to {secs, nsecs}
TopicTimeout(seconds) ==
    LET secs  == seconds \div 100
        nsecs == (seconds - secs * 100) * 10000000   \* hundredths to 1e-9
    IN  [ secs |-> secs, nsecs |-> nsecs ]

TFClient(opts) ==
    /\ options = opts
    /\ fixedFrame = OrString(opts.fixedFrame, DefaultFixedFrame)
    /\ angularThres = OrNumber(opts.angularThres, DefaultAngularThres)
    /\ transThres = OrNumber(opts.transThres, DefaultTransThres)
    /\ rate = OrNumber(opts.rate, DefaultRate)
    /\ goalUpdateDelay = OrNumber(opts.goalUpdateDelay, DefaultGoalUpdateDelay)
    /\ topicTimeout = TopicTimeout(OrNumber(opts.topicTimeout, DefaultTopicTimeout))
    /\ currentTopic = False
    /\ frameInfos = <<>>
    /\ goalUpdateRequested = FALSE
    /\ needUpdate = "undefined"
    /\ timers = 0
    /\ inflight = {}
    /\ numRequests = 0
    /\ subscribedTopics = {}
    /\ window = {}
    /\ op = Ran("new", <<>>, "")
    /\ out = <<>>
    /\ named = {}
    /\ dropped = {}
    /\ received = <<>>

\* new TFClient({ros: ros})
Init == TFClient(NoOptions)

\* new TFClient(options)
InitOptions == \E opts \in OptionSets : TFClient(opts)

(***************************************************************************)
(* The frame entries: this.frameInfos is an object keyed by frame name,    *)
(* whose keys are enumerated in insertion order.                           *)
(***************************************************************************)
Frames(infos) == [ i \in 1..Len(infos) |-> infos[i].frame ]

\* the position of infos[frame], 0 when infos[frame] === undefined
Lookup(infos, frame) ==
    IF \E i \in 1..Len(infos) : infos[i].frame = frame
    THEN CHOOSE i \in 1..Len(infos) : infos[i].frame = frame
    ELSE 0

\* delete infos[frame]
Delete(infos, i) == SubSeq(infos, 1, i - 1) \o SubSeq(infos, i + 1, Len(infos))

RECURSIVE TotalCbs(_)
TotalCbs(infos) ==
    IF infos = <<>> THEN 0 ELSE Len(Head(infos).cbs) + TotalCbs(Tail(infos))

(***************************************************************************)
(* What a handler does to the outside, in the order it does it.            *)
(***************************************************************************)
Called(cb, transform) == [ type |-> "callback", cb |-> cb, transform |-> transform ]
SetTimeout(delay)     == [ type |-> "setTimeout", delay |-> delay ]
CallService(request)  == [ type |-> "callService", request |-> request ]
TopicSubscribe(t)     == [ type |-> "topic.subscribe", topic |-> t ]
TopicUnsubscribe(t)   == [ type |-> "topic.unsubscribe", topic |-> t ]

OfType(events, type) == SelectSeq(events, LAMBDA e : e.type = type)

(***************************************************************************)
(* subscribe(frameID, callback)                                            *)
(***************************************************************************)
\* SubscribeFrame with the slash left in place
SubscribeFrameAsIs(frameID) == frameID

\* remove leading slash, if it's there
SubscribeFrame(frameID) ==
    IF Len(frameID) > 0 /\ frameID[1] = "/" THEN Tail(frameID) ELSE frameID

\* the entry created for a frame without one
NewInfo(frame) == [ frame |-> frame, cbs |-> <<>>, transform |-> Undefined ]

\* ArmsTimer without the test of the flag
ArmsTimerAlways(requested) == TRUE

\* whether a new entry arms the goal update timer
ArmsTimer(requested) == ~requested

\* CallBackImmediately without the call
CallBackNever(info, callback) == <<>>

\* if we already have a transform, call back immediately
CallBackImmediately(info, callback) ==
    IF info.transform # Undefined THEN << Called(callback, info.transform) >> ELSE <<>>

\* the updates received, once a frame has a fresh entry
Opened(updates, frame) ==
    [ k \in DOMAIN updates \cup { frame } |->
          IF k = frame THEN Undefined ELSE updates[k] ]

subscribe(frameID, callback) ==
    LET frame   == SubscribeFrame(frameID)
        isNew   == Lookup(frameInfos, frame) = 0
        arms    == isNew /\ ArmsTimer(goalUpdateRequested)
        created == IF isNew THEN Append(frameInfos, NewInfo(frame)) ELSE frameInfos
        i       == Lookup(created, frame)
    IN  /\ TotalCbs(frameInfos) < MaxSubs
        /\ arms => numRequests + timers < MaxRequests
        /\ frameInfos' = [ created EXCEPT ![i].cbs = Append(@, callback) ]
        /\ goalUpdateRequested' = IF arms THEN TRUE ELSE goalUpdateRequested
        /\ timers' = IF arms THEN timers + 1 ELSE timers
        /\ out' = IF isNew
                  THEN IF arms THEN << SetTimeout(goalUpdateDelay) >> ELSE <<>>
                  ELSE CallBackImmediately(frameInfos[i], callback)
        /\ window' = IF ~isNew THEN window
                     ELSE IF arms THEN { frame } ELSE window \cup { frame }
        /\ op' = Ran("subscribe", frameID,
                     IF op.note = "deleted" /\ op.frameID = frame
                     THEN "again" ELSE "")
        /\ named' = IF isNew THEN named \ { frame } ELSE named
        /\ dropped' = {}
        /\ received' = IF isNew THEN Opened(received, frame) ELSE received
        /\ UNCHANGED <<config, currentTopic, needUpdate, inflight, numRequests,
                       subscribedTopics, options>>

(***************************************************************************)
(* unsubscribe(frameID, callback)                                          *)
(***************************************************************************)
\* UnsubscribeFrame with the slash left in place
UnsubscribeFrameAsIs(frameID) == frameID

\* remove leading slash, if it's there
UnsubscribeFrame(frameID) ==
    IF Len(frameID) > 0 /\ frameID[1] = "/" THEN Tail(frameID) ELSE frameID

\* cbs.indexOf(callback), counted from 1; 0 when it is not there
IndexOf(cbs, callback) ==
    IF \E k \in 1..Len(cbs) : cbs[k] = callback
    THEN CHOOSE k \in 1..Len(cbs) :
             cbs[k] = callback /\ \A j \in 1..(k - 1) : cbs[j] # callback
    ELSE 0

\* Found without the test of the index
FoundAlways(cbIndex) == TRUE

\* if (cbIndex >= 0)
Found(cbIndex) == cbIndex >= 1

\* Splice without the delete count: cbs.splice(cbIndex)
SpliceToEnd(cbs, cbIndex) ==
    LET k == IF cbIndex = 0 THEN Len(cbs) ELSE cbIndex
    IN  SubSeq(cbs, 1, k - 1)

\* cbs.splice(cbIndex, 1); an index of -1 (0 here) counts from the end
Splice(cbs, cbIndex) ==
    LET k == IF cbIndex = 0 THEN Len(cbs) ELSE cbIndex
    IN  SubSeq(cbs, 1, k - 1) \o SubSeq(cbs, k + 1, Len(cbs))

\* RemoveCallback that keeps an entry without callbacks
RemoveCallbackKeepsEntry(infos, i, cbIndex) ==
    [ infos EXCEPT ![i].cbs = Splice(infos[i].cbs, cbIndex) ]

\* the entries once the callback at cbIndex of entry i is removed
RemoveCallback(infos, i, cbIndex) ==
    LET cbs == Splice(infos[i].cbs, cbIndex)
    IN  IF Len(cbs) = 0 THEN Delete(infos, i) ELSE [ infos EXCEPT ![i].cbs = cbs ]

\* the updates received, once the entry of a frame is deleted
Closed(updates, frame) == [ k \in DOMAIN updates \ { frame } |-> updates[k] ]

\* unsubscribe that consumes needUpdate: it arms the goal update timer when
\* it has removed a callback and no goal update is requested
unsubscribeAndUpdate(frameID, callback) ==
    LET frame   == UnsubscribeFrame(frameID)
        i       == Lookup(frameInfos, frame)
        cbIndex == IF i = 0 THEN 0 ELSE IndexOf(frameInfos[i].cbs, callback)
        found   == i # 0 /\ Found(cbIndex)
        arms    == found /\ ~goalUpdateRequested
        gone    == found /\ Len(frameInfos[i].cbs) = 1
    IN  /\ frameInfos' = IF found THEN RemoveCallback(frameInfos, i, cbIndex)
                         ELSE frameInfos
        /\ needUpdate' = IF found THEN "true" ELSE needUpdate
        /\ goalUpdateRequested' = IF arms THEN TRUE ELSE goalUpdateRequested
        /\ timers' = IF arms THEN timers + 1 ELSE timers
        /\ out' = IF arms THEN << SetTimeout(goalUpdateDelay) >> ELSE <<>>
        /\ window' = IF found THEN window \ { frame } ELSE window
        /\ op' = Ran("unsubscribe", <<>>, "")
        /\ named' = IF gone THEN named \ { frame } ELSE named
        /\ dropped' = IF gone THEN named \cap { frame } ELSE {}
        /\ received' = IF gone THEN Closed(received, frame) ELSE received
        /\ UNCHANGED <<config, currentTopic, inflight, numRequests,
                       subscribedTopics, options>>

unsubscribe(frameID, callback) ==
    LET frame   == UnsubscribeFrame(frameID)
        i       == Lookup(frameInfos, frame)
        cbIndex == IF i = 0 THEN 0 ELSE IndexOf(frameInfos[i].cbs, callback)
    IN  /\ IF i # 0 /\ Found(cbIndex)
           THEN /\ frameInfos' = RemoveCallback(frameInfos, i, cbIndex)
                /\ needUpdate' = "true"
                /\ window' = window \ { frame }
                /\ op' = IF /\ Lookup(frameInfos', frame) = 0
                             /\ frameInfos[i].transform # Undefined
                          THEN Ran("unsubscribe", frame, "deleted")
                          ELSE IF /\ Lookup(frameInfos', frame) # 0
                                  /\ IndexOf(frameInfos'[Lookup(frameInfos', frame)].cbs,
                                             callback) # 0
                          THEN Ran("unsubscribe", <<>>, "twice")
                          ELSE Ran("unsubscribe", <<>>, "")
                /\ named' = IF Lookup(frameInfos', frame) = 0
                             THEN named \ { frame } ELSE named
                /\ dropped' = IF Lookup(frameInfos', frame) = 0
                               THEN named \cap { frame } ELSE {}
                /\ received' = IF Lookup(frameInfos', frame) = 0
                                THEN Closed(received, frame) ELSE received
           ELSE /\ UNCHANGED <<frameInfos, needUpdate, window, named, received>>
                /\ dropped' = {}
                /\ op' = Ran("unsubscribe", <<>>, "")
        /\ out' = <<>>
        /\ UNCHANGED <<config, currentTopic, goalUpdateRequested, timers, inflight,
                       numRequests, subscribedTopics, options>>

(***************************************************************************)
(* updateGoal(), run by the timer                                          *)
(***************************************************************************)
\* SourceFrames that stops after the first frame
SourceFramesFirst(infos) == IF infos = <<>> THEN <<>> ELSE << infos[1].frame >>

\* for (var frame in this.frameInfos) request.source_frames.push(frame)
SourceFrames(infos) == Frames(infos)

ServiceRequest(infos) ==
    [ source_frames |-> SourceFrames(infos),
      target_frame  |-> fixedFrame,
      angular_thres |-> angularThres,
      trans_thres   |-> transThres,
      rate          |-> rate,
      timeout       |-> topicTimeout ]

\* GoalSent that leaves the flag as it is
GoalSentKept(requested) == requested

\* this.goalUpdateRequested = false
GoalSent(requested) == FALSE

updateGoal ==
    /\ timers > 0
    /\ timers' = timers - 1
    /\ numRequests' = numRequests + 1
    /\ inflight' = inflight \cup { numRequests + 1 }
    /\ goalUpdateRequested' = GoalSent(goalUpdateRequested)
    /\ window' = {}
    /\ op' = Ran("updateGoal", <<>>, "")
    /\ out' = << CallService(ServiceRequest(frameInfos)) >>
    /\ named' = named \cup (Range(out'[1].request.source_frames)
                                \cap Range(Frames(frameInfos)))
    /\ dropped' = {}
    /\ UNCHANGED <<config, currentTopic, frameInfos, needUpdate, subscribedTopics,
                   options, received>>

(***************************************************************************)
(* processResponse(response), run when a service call is answered.  The    *)
(* republisher names a stream of its own for every request, so a topic is  *)
(* known by the number of the request it answers.                          *)
(***************************************************************************)
\* UnsubscribePrevious that leaves the topic subscribed
UnsubscribeNothing(topic) == <<>>

\* if we subscribed to a topic before, unsubscribe
UnsubscribePrevious(topic) ==
    IF topic # False THEN << TopicUnsubscribe(topic) >> ELSE <<>>

\* the subscriptions held after the topic operations of a handler
RECURSIVE Subscriptions(_, _)
Subscriptions(held, events) ==
    IF events = <<>> THEN held
    ELSE LET e == Head(events)
         IN  Subscriptions(IF e.type = "topic.subscribe" THEN held \cup { e.topic }
                           ELSE IF e.type = "topic.unsubscribe" THEN held \ { e.topic }
                           ELSE held,
                           Tail(events))

processResponse(response) ==
    LET topic  == response.topic_name
        events == UnsubscribePrevious(currentTopic) \o << TopicSubscribe(topic) >>
    IN  /\ response.topic_name \in inflight
        /\ inflight' = inflight \ { response.topic_name }
        /\ currentTopic' = topic
        /\ subscribedTopics' = Subscriptions(subscribedTopics, events)
        /\ op' = Ran("processResponse", <<>>, "")
        /\ out' = events
        /\ dropped' = {}
        /\ UNCHANGED <<config, frameInfos, goalUpdateRequested, needUpdate, timers,
                       numRequests, options, window, named, received>>

(***************************************************************************)
(* processFeedback(tf), run for every message of a subscribed topic        *)
(***************************************************************************)
\* FeedbackFrame with the slash left in place
FeedbackFrameAsIs(frameID) == frameID

\* remove leading slash, if it's there
FeedbackFrame(frameID) ==
    IF Len(frameID) > 0 /\ frameID[1] = "/" THEN Tail(frameID) ELSE frameID

\* Dispatch from the last callback to the first
RECURSIVE DispatchReversed(_, _)
DispatchReversed(cbs, transform) ==
    IF cbs = <<>> THEN <<>>
    ELSE DispatchReversed(Tail(cbs), transform) \o << Called(Head(cbs), transform) >>

\* info.cbs.forEach(cb => cb(info.transform))
RECURSIVE Dispatch(_, _)
Dispatch(cbs, transform) ==
    IF cbs = <<>> THEN <<>>
    ELSE << Called(Head(cbs), transform) >> \o Dispatch(Tail(cbs), transform)

\* ForEachTransform that makes an entry for a frame without one
RECURSIVE ForEachTransformCreates(_, _, _)
ForEachTransformCreates(infos, calls, transforms) ==
    IF transforms = <<>> THEN [ infos |-> infos, calls |-> calls ]
    ELSE LET transform == Head(transforms)
             frame     == FeedbackFrame(transform.child_frame_id)
             t         == Transform(transform.transform)
             tracked   == IF Lookup(infos, frame) # 0 THEN infos
                          ELSE Append(infos, NewInfo(frame))
             i         == Lookup(tracked, frame)
         IN  ForEachTransformCreates([ tracked EXCEPT ![i].transform = t ],
                                     calls \o Dispatch(tracked[i].cbs, t),
                                     Tail(transforms))

\* tf.transforms.forEach(...): the entries and the calls after the transforms
RECURSIVE ForEachTransform(_, _, _)
ForEachTransform(infos, calls, transforms) ==
    IF transforms = <<>> THEN [ infos |-> infos, calls |-> calls ]
    ELSE LET transform == Head(transforms)
             frame     == FeedbackFrame(transform.child_frame_id)
             i         == Lookup(infos, frame)
             t         == Transform(transform.transform)
         IN  IF i # 0
             THEN ForEachTransform([ infos EXCEPT ![i].transform = t ],
                                   calls \o Dispatch(infos[i].cbs, t),
                                   Tail(transforms))
             ELSE ForEachTransform(infos, calls, Tail(transforms))

\* the updates received, once the transforms of a message are added: an
\* update counts for the frame of its child_frame_id less one leading "/"
RECURSIVE LastUpdates(_, _)
LastUpdates(updates, transforms) ==
    IF transforms = <<>> THEN updates
    ELSE LET u == Head(transforms)
             k == IF u.child_frame_id # <<>> /\ Head(u.child_frame_id) = "/"
                  THEN Tail(u.child_frame_id) ELSE u.child_frame_id
         IN  LastUpdates(IF k \in DOMAIN updates
                         THEN [ updates EXCEPT ![k] =
                                    [ translation |-> u.transform.translation,
                                      rotation |-> u.transform.rotation ] ]
                         ELSE updates,
                         Tail(transforms))

processFeedback(tf) ==
    LET after == ForEachTransform(frameInfos, <<>>, tf.transforms)
    IN  /\ subscribedTopics # {}
        /\ frameInfos' = after.infos
        /\ op' = Ran("processFeedback", <<>>, "")
        /\ out' = after.calls
        /\ received' = LastUpdates(received, tf.transforms)
        /\ dropped' = {}
        /\ UNCHANGED <<config, currentTopic, goalUpdateRequested, needUpdate, timers,
                       inflight, numRequests, subscribedTopics, options, window,
                       named>>

(***************************************************************************)
(* The client in its environment: callers subscribe and unsubscribe, the   *)
(* timer fires, the service answers, the stream delivers.                  *)
(***************************************************************************)
Subscribe       == \E frameID \in FrameIDs, callback \in Callbacks : subscribe(frameID, callback)
Unsubscribe     == \E frameID \in FrameIDs, callback \in Callbacks : unsubscribe(frameID, callback)
TimerFires      == updateGoal
ResponseArrives == \E id \in 1..MaxRequests : processResponse([ topic_name |-> id ])
MessageArrives  == \E tf \in TFArrays : processFeedback(tf)

Next ==
    \/ Subscribe
    \/ Unsubscribe
    \/ TimerFires
    \/ ResponseArrives
    \/ MessageArrives

Spec == Init /\ [][Next]_vars

SpecOptions == InitOptions /\ [][Next]_vars

\* the timer that setTimeout arms fires in the end
SpecFair == Init /\ [][Next]_vars /\ WF_vars(TimerFires)

(***************************************************************************)
(* Vocabulary of the properties.                                           *)
(***************************************************************************)
\* a frame name without its leading path separator, if it has one
Key(frameID) ==
    IF frameID # <<>> /\ Head(frameID) = "/" THEN Tail(frameID) ELSE frameID

WithSlash(name) == <<"/">> \o name

\* the frame names that begin with no path separator
PlainNames == { n \in FrameIDs : Head(n) # "/" }

Tracked(infos, frame) == \E i \in 1..Len(infos) : infos[i].frame = frame

CbsOf(infos, frame) ==
    IF Tracked(infos, frame) THEN infos[Lookup(infos, frame)].cbs ELSE <<>>

CachedOf(infos, frame) ==
    IF Tracked(infos, frame) THEN infos[Lookup(infos, frame)].transform ELSE Undefined

Last(s) == s[Len(s)]

\* one call per callback of cbs, in the order of cbs
RECURSIVE CallsTo(_, _)
CallsTo(cbs, transform) ==
    IF cbs = <<>> THEN <<>>
    ELSE << Called(cbs[1], transform) >> \o CallsTo(Tail(cbs), transform)

\* the calls a message owes the callbacks registered in infos
RECURSIVE ExpectedCalls(_, _)
ExpectedCalls(infos, transforms) ==
    IF transforms = <<>> THEN <<>>
    ELSE LET u == Head(transforms)
         IN  CallsTo(CbsOf(infos, Key(u.child_frame_id)),
                     [ translation |-> u.transform.translation,
                       rotation |-> u.transform.rotation ])
             \o ExpectedCalls(infos, Tail(transforms))

\* the calls processFeedback makes for a message that arrives now, and the
\* entries it leaves
CallsFor(tf) == ForEachTransform(frameInfos, <<>>, tf.transforms).calls
InfosFor(tf) == ForEachTransform(frameInfos, <<>>, tf.transforms).infos

\* the step is a call of subscribe or unsubscribe
ByCaller == op'.name \in { "subscribe", "unsubscribe" }

(***************************************************************************)
(* C1  Coalescing.  A request is issued only by the step that closes a     *)
(* debounce window, that step issues exactly one, and its source_frames    *)
(* name every frame first subscribed in the window and not unsubscribed    *)
(* in it.                                                                  *)
(***************************************************************************)
C1_Coalescing ==
    [][ /\ numRequests' # numRequests =>
              /\ goalUpdateRequested /\ ~goalUpdateRequested'
              /\ numRequests' = numRequests + 1
              /\ Len(out') = 1
              /\ out'[1].type = "callService"
              /\ window \subseteq Range(out'[1].request.source_frames)
        /\ (goalUpdateRequested /\ ~goalUpdateRequested') =>
              numRequests' = numRequests + 1
      ]_vars

\* the first request of a run names two frames, none ever unsubscribed
C1_Witness ==
    /\ op.name = "updateGoal"
    /\ numRequests = 1
    /\ needUpdate = "undefined"
    /\ Len(out) = 1
    /\ Cardinality(Range(out[1].request.source_frames)) = 2

(***************************************************************************)
(* C2  subscribe(f, cb) calls cb once, with the cached transform, exactly  *)
(* when the entry of f holds one; it registers cb in every case, and a     *)
(* stream update for a frame calls every callback registered for it with   *)
(* the transform of the update.                                            *)
(***************************************************************************)
C2_CachedDelivery ==
    /\ [][ ByCaller => \A f \in FrameIDs, cb \in Callbacks :
              subscribe(f, cb) =>
                  LET cached == CachedOf(frameInfos, Key(f))
                  IN  /\ OfType(out', "callback") =
                             IF cached # Undefined THEN << Called(cb, cached) >> ELSE <<>>
                      /\ Tracked(frameInfos', Key(f))
                      /\ Last(CbsOf(frameInfos', Key(f))) = cb
      ]_vars
    /\ [](\A u \in StampedTransforms :
              \A cb \in Range(CbsOf(frameInfos, Key(u.child_frame_id))) :
                  \E e \in Range(CallsFor([ transforms |-> << u >> ])) :
                      /\ e.cb = cb
                      /\ e.transform.translation = u.transform.translation
                      /\ e.transform.rotation = u.transform.rotation)

\* a subscribe has just called its callback with the cached transform
C2_Witness ==
    /\ op.name = "subscribe"
    /\ CachedOf(frameInfos, Key(op.frameID)) # Undefined
    /\ out = << Called(Last(CbsOf(frameInfos, Key(op.frameID))),
                       CachedOf(frameInfos, Key(op.frameID))) >>

(***************************************************************************)
(* C3  Fan-out order.  subscribe puts the callback behind the callbacks    *)
(* the frame already has, and a message calls, update by update, the       *)
(* callbacks of the frame in that order with the transform of the update.  *)
(***************************************************************************)
C3_FanOutOrder ==
    /\ [][ ByCaller => \A f \in FrameIDs, cb \in Callbacks :
              subscribe(f, cb) =>
                  CbsOf(frameInfos', Key(f)) = Append(CbsOf(frameInfos, Key(f)), cb)
      ]_vars
    /\ [](\A tf \in TFArrays : CallsFor(tf) = ExpectedCalls(frameInfos, tf.transforms))

\* an update has just reached two different callbacks, first subscribed first
C3_Witness ==
    /\ op.name = "processFeedback"
    /\ Len(out) = 2
    /\ out[1].cb # out[2].cb
    /\ \E i \in 1..Len(frameInfos) :
           /\ frameInfos[i].cbs = << out[1].cb, out[2].cb >>
           /\ out[1].transform = frameInfos[i].transform
           /\ out[2].transform = frameInfos[i].transform

(***************************************************************************)
(* C4  Unsubscribing the only callback of a frame deletes its entry, and   *)
(* subscribing to a frame without an entry calls nothing, appends a fresh  *)
(* entry that holds the callback and no transform, and leaves a request    *)
(* pending, arming the timer when none was pending.                        *)
(***************************************************************************)
C4_LastUnsubscribeForgets ==
    [][ ByCaller => \A f \in FrameIDs, cb \in Callbacks :
            /\ (unsubscribe(f, cb) /\ CbsOf(frameInfos, Key(f)) = << cb >>) =>
                   ~Tracked(frameInfos', Key(f))
            /\ (subscribe(f, cb) /\ ~Tracked(frameInfos, Key(f))) =>
                   /\ OfType(out', "callback") = <<>>
                   /\ frameInfos' = Append(frameInfos,
                          [ frame |-> Key(f), cbs |-> << cb >>, transform |-> Undefined ])
                   /\ goalUpdateRequested'
                   /\ ~goalUpdateRequested =>
                          /\ timers' = timers + 1
                          /\ out' = << SetTimeout(goalUpdateDelay) >>
      ]_vars

\* a frame whose entry was deleted with a transform in it has just been
\* subscribed again, with nothing called and a timer armed
C4_Witness ==
    /\ op.name = "subscribe"
    /\ op.note = "again"
    /\ CbsOf(frameInfos, Key(op.frameID)) # <<>>
    /\ CachedOf(frameInfos, Key(op.frameID)) = Undefined
    /\ out = << SetTimeout(goalUpdateDelay) >>

(***************************************************************************)
(* C5  The client holds a subscription on at most one topic, the one in    *)
(* currentTopic, and processResponse subscribes the new topic as its last  *)
(* step, after unsubscribing the one before.                               *)
(***************************************************************************)
C5_OneActiveStream ==
    /\ Cardinality(subscribedTopics) <= 1
    /\ subscribedTopics = IF currentTopic = False THEN {} ELSE { currentTopic }
    /\ op.name = "processResponse" =>
           /\ Len(out) \in 1..2
           /\ Last(out) = TopicSubscribe(currentTopic)
           /\ Len(out) = 2 => /\ out[1].type = "topic.unsubscribe"
                              /\ out[1].topic # currentTopic

\* a second response has replaced the stream of the first
C5_Witness ==
    /\ op.name = "processResponse"
    /\ Len(out) = 2
    /\ out[1].type = "topic.unsubscribe"
    /\ subscribedTopics = { currentTopic }

(***************************************************************************)
(* C6  As the claim states it: a subscribe for a frame without an entry,   *)
(* arriving while a request is in flight and no timer is armed, or while   *)
(* a stream is attached, arms no timer.                                    *)
(***************************************************************************)
C6_NoFreshRequest ==
    [][ ByCaller => \A f \in FrameIDs, cb \in Callbacks :
            ( /\ subscribe(f, cb)
              /\ ~Tracked(frameInfos, Key(f))
              /\ \/ inflight # {} /\ timers = 0
                 \/ currentTopic # False ) =>
                /\ timers' = timers
                /\ OfType(out', "setTimeout") = <<>>
      ]_vars

(***************************************************************************)
(* C6, amended.  A subscribe for a frame without an entry, arriving while  *)
(* a request is in flight or a stream is attached, arms a timer exactly    *)
(* when none is armed; every timer that fires issues a service call that   *)
(* names every frame with an entry.                                        *)
(***************************************************************************)
C6_FreshRequestUnlessPending ==
    [][ /\ ByCaller => \A f \in FrameIDs, cb \in Callbacks :
               ( /\ subscribe(f, cb)
                 /\ ~Tracked(frameInfos, Key(f))
                 /\ (inflight # {} \/ currentTopic # False) ) =>
                   IF timers = 0
                   THEN /\ timers' = 1
                        /\ goalUpdateRequested'
                        /\ out' = << SetTimeout(goalUpdateDelay) >>
                   ELSE /\ timers' = timers
                        /\ OfType(out', "setTimeout") = <<>>
        /\ timers' < timers =>
               /\ numRequests' = numRequests + 1
               /\ OfType(out', "callService") = out'
               /\ Len(out') = 1
               /\ Range(out'[1].request.source_frames) =
                      { frameInfos[i].frame : i \in 1..Len(frameInfos) }
      ]_vars

\* a new frame subscribed with a stream attached has armed a timer
C6_Witness ==
    /\ op.name = "subscribe"
    /\ currentTopic # False
    /\ out = << SetTimeout(goalUpdateDelay) >>
    /\ timers = 1
    /\ Len(CbsOf(frameInfos, Key(op.frameID))) = 1

(***************************************************************************)
(* C7  Frame-name normalization.  For a name n without a leading path      *)
(* separator, subscribe and unsubscribe with "/" + n act on the entry n    *)
(* as they do with n, and an update for "/" + n calls the callbacks of n   *)
(* and replaces the transform of n.                                        *)
(***************************************************************************)
C7_Normalization ==
    /\ [][ ByCaller => \A n \in PlainNames, cb \in Callbacks :
            /\ (subscribe(n, cb) \/ subscribe(WithSlash(n), cb)) =>
                   /\ CbsOf(frameInfos', n) = Append(CbsOf(frameInfos, n), cb)
                   /\ Range(Frames(frameInfos')) = Range(Frames(frameInfos)) \cup { n }
            /\ ( /\ unsubscribe(n, cb) \/ unsubscribe(WithSlash(n), cb)
                 /\ cb \in Range(CbsOf(frameInfos, n)) ) =>
                   /\ Len(CbsOf(frameInfos', n)) = Len(CbsOf(frameInfos, n)) - 1
                   /\ Range(Frames(frameInfos')) \subseteq Range(Frames(frameInfos))
                   /\ \A i \in 1..Len(frameInfos) :
                          frameInfos[i].frame # n => Tracked(frameInfos', frameInfos[i].frame)
      ]_vars
    /\ [](\A n \in PlainNames, t \in [translation : Translations, rotation : Rotations] :
              LET tf == [ transforms |->
                            << [ child_frame_id |-> WithSlash(n), transform |-> t ] >> ]
              IN  /\ CallsFor(tf) = CallsTo(CbsOf(frameInfos, n), t)
                  /\ Tracked(frameInfos, n) => CachedOf(InfosFor(tf), n) = t)

\* a subscribe under "/base_link" has just acted on the entry "base_link",
\* which a callback subscribed before it shares
C7_Witness ==
    /\ op.name = "subscribe"
    /\ op.frameID = WithSlash(BaseLink)
    /\ Len(CbsOf(frameInfos, BaseLink)) = 2
    /\ ~Tracked(frameInfos, WithSlash(BaseLink))

Configured ==
    IF options = NoOptions
    THEN [ target_frame  |-> <<"/", "b", "a", "s", "e", "_", "l", "i", "n", "k">>,
           angular_thres |-> 200,
           trans_thres   |-> 1,
           rate          |-> 1000,
           timeout       |-> [ secs |-> 2, nsecs |-> 0 ] ]
    ELSE [ target_frame  |-> options.fixedFrame,
           angular_thres |-> options.angularThres,
           trans_thres   |-> options.transThres,
           rate          |-> options.rate,
           timeout       |-> [ secs |-> 2, nsecs |-> 750000000 ] ]

C9_RequestContents ==
    op.name = "updateGoal" =>
        /\ Len(out) = 1
        /\ out[1].type = "callService"
        /\ LET request == out[1].request
           IN  /\ Len(request.source_frames) = Len(frameInfos)
               /\ \A i \in 1..Len(frameInfos) :
                      /\ request.source_frames[i] = frameInfos[i].frame
                      /\ \A j \in 1..Len(frameInfos) :
                             request.source_frames[i] = request.source_frames[j] => i = j
               /\ request.target_frame = Configured.target_frame
               /\ request.angular_thres = Configured.angular_thres
               /\ request.trans_thres = Configured.trans_thres
               /\ request.rate = Configured.rate
               /\ request.timeout = Configured.timeout
               /\ ( /\ options = NoOptions
                    /\ Len(frameInfos) = 1
                    /\ Key(WithSlash(BaseLink)) = frameInfos[1].frame ) =>
                      request = [ source_frames |-> << BaseLink >>,
                                  target_frame  |-> WithSlash(BaseLink),
                                  angular_thres |-> 200,
                                  trans_thres   |-> 1,
                                  rate          |-> 1000,
                                  timeout       |-> [ secs |-> 2, nsecs |-> 0 ] ]

\* the request of a client with options, naming two frames
C9_Witness ==
    /\ op.name = "updateGoal"
    /\ options = SomeOptions
    /\ Len(out) = 1
    /\ Len(out[1].request.source_frames) = 2
    /\ out[1].request.timeout.nsecs = 750000000

(***************************************************************************)
(* C10  At most one timer is armed, and goalUpdateRequested is true        *)
(* exactly while one is.                                                   *)
(***************************************************************************)
C10_OneTimer ==
    /\ timers <= 1
    /\ goalUpdateRequested <=> timers = 1

\* a second new frame has been subscribed while the timer was armed
C10_Witness ==
    /\ op.name = "subscribe"
    /\ goalUpdateRequested
    /\ timers = 1
    /\ Len(frameInfos) = 2
    /\ out = <<>>
    /\ numRequests = 0

(***************************************************************************)
(* C11  After every handler, every entry holds at least one callback and   *)
(* no frame has two entries: an entry exists exactly while callbacks are   *)
(* registered for its frame, and a subscribe leaves its frame with one.    *)
(***************************************************************************)
C11_EntryIffCallbacks ==
    /\ \A i \in 1..Len(frameInfos) : frameInfos[i].cbs # <<>>
    /\ \A i, j \in 1..Len(frameInfos) :
           frameInfos[i].frame = frameInfos[j].frame => i = j
    /\ TotalCbs(frameInfos) = 0 <=> frameInfos = <<>>
    /\ op.name = "subscribe" =>
           /\ Tracked(frameInfos, Key(op.frameID))
           /\ CbsOf(frameInfos, Key(op.frameID)) # <<>>

\* an unsubscribe has just deleted the entry of one frame and left the
\* entry of another, with its callback, in place
C11_Witness ==
    /\ op.name = "unsubscribe"
    /\ op.note = "deleted"
    /\ ~Tracked(frameInfos, op.frameID)
    /\ Len(frameInfos) = 1
    /\ Len(frameInfos[1].cbs) = 1

(***************************************************************************)
(* C12  As the claim states it: no entry is keyed by a name that begins    *)
(* with a path separator.                                                  *)
(***************************************************************************)
SlashKeys(infos) ==
    { infos[i].frame : i \in { j \in 1..Len(infos) :
                                  /\ infos[j].frame # <<>>
                                  /\ Head(infos[j].frame) = "/" } }

C12_NoSeparatorKeys == SlashKeys(frameInfos) = {}

(***************************************************************************)
(* C12, amended.  subscribe keys the entry by the name less exactly one    *)
(* leading path separator: a name that begins with at most one separator   *)
(* adds no key that begins with one, a name that begins with two or more   *)
(* adds the key that begins with one fewer, and no other handler adds a    *)
(* key that begins with a separator.                                       *)
(***************************************************************************)
SeveralSeparators(frameID) ==
    /\ Len(frameID) >= 2
    /\ frameID[1] = "/"
    /\ frameID[2] = "/"

C12_OneSeparatorStripped ==
    [][ /\ ByCaller => \A f \in FrameIDs, cb \in Callbacks :
               subscribe(f, cb) =>
                   /\ Range(Frames(frameInfos')) = Range(Frames(frameInfos)) \cup { Key(f) }
                   /\ SlashKeys(frameInfos') =
                          SlashKeys(frameInfos) \cup
                              (IF SeveralSeparators(f) THEN { Tail(f) } ELSE {})
        /\ op'.name # "subscribe" => SlashKeys(frameInfos') \subseteq SlashKeys(frameInfos)
      ]_vars

\* "//base_link" has just been subscribed, next to "base_link": the entries
\* are keyed "base_link" and "/base_link"
C12_Witness ==
    /\ op.name = "subscribe"
    /\ op.frameID = <<"/", "/">> \o BaseLink
    /\ Range(Frames(frameInfos)) = { BaseLink, WithSlash(BaseLink) }
    /\ SlashKeys(frameInfos) = { WithSlash(BaseLink) }

(***************************************************************************)
(* C13  As the claim states it: at most one service call is issued and     *)
(* not yet answered.                                                       *)
(***************************************************************************)
C13_OneInFlight == Cardinality(inflight) <= 1

(***************************************************************************)
(* C13, amended.  At most one request is queued behind a timer.  A call    *)
(* is issued only by the one armed timer firing, whether or not earlier    *)
(* calls are unanswered, and joins them; a timer is armed only by a        *)
(* subscribe for a frame without an entry, when none is armed.             *)
(***************************************************************************)
C13_OneQueuedRequest ==
    [][ /\ numRequests' # numRequests =>
               /\ timers = 1 /\ timers' = 0
               /\ numRequests' = numRequests + 1
               /\ numRequests' \notin inflight
               /\ inflight' = inflight \cup { numRequests' }
        /\ timers' > timers =>
               /\ timers = 0 /\ timers' = 1
               /\ op'.name = "subscribe"
               /\ ~Tracked(frameInfos, Key(op'.frameID))
               /\ UNCHANGED <<numRequests, inflight>>
        /\ inflight' # inflight =>
               \/ numRequests' = numRequests + 1
               \/ /\ op'.name = "processResponse"
                  /\ inflight' = inflight \ { currentTopic' }
                  /\ currentTopic' \in inflight
      ]_vars

\* the timer has just issued a second call, the first still unanswered
C13_Witness ==
    /\ op.name = "updateGoal"
    /\ inflight = { 1, 2 }
    /\ currentTopic = False

(***************************************************************************)
(* C14  unsubscribe requests nothing: whatever its arguments, it leaves    *)
(* the flag, the timer, the unanswered calls and the topic as they are     *)
(* and does nothing to the outside, also when it deletes the entry of a    *)
(* frame that the last request names.  A request is issued only while a    *)
(* timer is armed and only a subscribe arms one, so the frames of the      *)
(* last request can include a frame without an entry for as long as no     *)
(* new frame is subscribed.                                                *)
(***************************************************************************)
C14_UnsubscribeRequestsNothing ==
    [][ /\ ByCaller => \A f \in FrameIDs, cb \in Callbacks :
               unsubscribe(f, cb) =>
                   /\ UNCHANGED <<goalUpdateRequested, timers, inflight, numRequests,
                                  currentTopic, subscribedTopics>>
                   /\ out' = <<>>
                   /\ ( /\ CbsOf(frameInfos, Key(f)) = << cb >>
                        /\ Key(f) \in named ) =>
                          /\ ~Tracked(frameInfos', Key(f))
                          /\ dropped' = { Key(f) }
        /\ numRequests' # numRequests => timers > 0
        /\ timers' > timers => op'.name = "subscribe"
      ]_vars

\* an unsubscribe has just deleted the entry of a frame that the last
\* request names, as it names the frame still tracked; nothing is pending
C14_Witness ==
    /\ op.name = "unsubscribe"
    /\ dropped # {}
    /\ dropped \cap Range(Frames(frameInfos)) = {}
    /\ Len(frameInfos) = 1
    /\ Range(Frames(frameInfos)) \subseteq named
    /\ numRequests >= 1
    /\ timers = 0
    /\ ~goalUpdateRequested

(***************************************************************************)
(* C15  A message reaches only the frames with an entry.  An update whose  *)
(* frame has no entry calls nothing and creates nothing; an update whose   *)
(* frame has one calls callbacks of that frame only and replaces the       *)
(* transform of that frame only; the message leaves the frames, their      *)
(* callbacks, the flag, the timer and the topic as they are.               *)
(***************************************************************************)
UpdatedFrames(tf) == { Key(tf.transforms[n].child_frame_id) : n \in 1..Len(tf.transforms) }

C15_OnlyTrackedFrames ==
    /\ [][ op'.name = "processFeedback" =>
              /\ UNCHANGED <<goalUpdateRequested, timers, inflight, numRequests,
                             currentTopic, subscribedTopics, needUpdate>>
              /\ Frames(frameInfos') = Frames(frameInfos)
              /\ \A i \in 1..Len(frameInfos) : frameInfos'[i].cbs = frameInfos[i].cbs
              /\ \A n \in 1..Len(out') :
                     /\ out'[n].type = "callback"
                     /\ \E i \in 1..Len(frameInfos) :
                            /\ out'[n].cb \in Range(frameInfos[i].cbs)
                            /\ frameInfos'[i].transform # Undefined
      ]_vars
    /\ [](\A tf \in TFArrays :
              LET done  == ForEachTransform(frameInfos, <<>>, tf.transforms)
                  after == done.infos
                  calls == done.calls
              IN  /\ Frames(after) = Frames(frameInfos)
                  /\ \A i \in 1..Len(frameInfos) :
                         /\ after[i].cbs = frameInfos[i].cbs
                         /\ frameInfos[i].frame \notin UpdatedFrames(tf) =>
                                after[i].transform = frameInfos[i].transform
                  /\ \A n \in 1..Len(calls) :
                         \E f \in UpdatedFrames(tf) :
                             /\ Tracked(frameInfos, f)
                             /\ calls[n].cb \in Range(CbsOf(frameInfos, f))
                  /\ (\A f \in UpdatedFrames(tf) : ~Tracked(frameInfos, f)) =>
                         /\ calls = <<>>
                         /\ after = frameInfos)

\* a message for a frame without an entry has just arrived while another
\* frame had one, with a callback: nothing was called, nothing created
C15_Witness ==
    /\ op.name = "processFeedback"
    /\ out = <<>>
    /\ Len(frameInfos) = 1
    /\ frameInfos[1].cbs # <<>>
    /\ frameInfos[1].transform = Undefined

(***************************************************************************)
(* C16  No frame is left without a request.  Every frame with an entry     *)
(* has been named by a request issued since its entry was created, or a    *)
(* timer is armed; so, the timer firing in the end, no frame keeps for     *)
(* ever an entry that no request has named: time and again the frame is    *)
(* named or has no entry.                                                  *)
(***************************************************************************)
Keys == { Key(f) : f \in FrameIDs }

C16_EveryFrameRequested ==
    /\ [](\A i \in 1..Len(frameInfos) :
              frameInfos[i].frame \in named \/ timers >= 1)
    /\ \A f \in Keys : []<>(f \in named \/ ~Tracked(frameInfos, f))

\* the second request has just named a frame subscribed after the first
C16_Witness ==
    /\ op.name = "updateGoal"
    /\ numRequests = 2
    /\ Len(frameInfos) = 2
    /\ Range(Frames(frameInfos)) \subseteq named
    /\ Len(out[1].request.source_frames) = 2
    /\ timers = 0

CallsOfUpdate(infos, frame) ==
    ForEachTransform(infos, <<>>,
        << [ child_frame_id |-> WithSlash(frame),
             transform |-> [ translation |-> <<1, 0, 0>>,
                             rotation |-> <<0, 0, 0, 1>> ] ] >>).calls

\* how often the callback is in the list, and in the calls
Count(cbs, cb) == Cardinality({ n \in 1..Len(cbs) : cbs[n] = cb })
Times(calls, cb) == Cardinality({ n \in 1..Len(calls) : calls[n].cb = cb })

\* the callbacks registered, frame by frame
Registrations(infos) == [ i \in 1..Len(infos) |-> << infos[i].frame, infos[i].cbs >> ]

C18_UnsubscribeStopsDelivery ==
    [][ ByCaller => \A f \in FrameIDs, cb \in Callbacks :
            unsubscribe(f, cb) => Times(CallsOfUpdate(frameInfos', Key(f)), cb) = 0
      ]_vars

(***************************************************************************)
(* C18, amended.  unsubscribe(f, cb) removes the earliest registration of  *)
(* cb for f and no other: a message for f then calls cb once for every     *)
(* registration that is left, so not at all when cb was registered once;   *)
(* only a subscribe of cb for f adds a registration.                       *)
(***************************************************************************)
C18_UnsubscribeRemovesOne ==
    [][ /\ ByCaller => \A f \in FrameIDs, cb \in Callbacks :
               unsubscribe(f, cb) =>
                   LET cbs   == CbsOf(frameInfos, Key(f))
                       left  == CbsOf(frameInfos', Key(f))
                       first == IndexOf(cbs, cb)
                   IN  /\ Count(cbs, cb) >= 1 =>
                              /\ left = SubSeq(cbs, 1, first - 1)
                                            \o SubSeq(cbs, first + 1, Len(cbs))
                              /\ Count(left, cb) = Count(cbs, cb) - 1
                       /\ Count(cbs, cb) = 0 => left = cbs
                       /\ Times(CallsOfUpdate(frameInfos', Key(f)), cb) = Count(left, cb)
                       /\ Count(cbs, cb) <= 1 =>
                              Times(CallsOfUpdate(frameInfos', Key(f)), cb) = 0
        /\ Registrations(frameInfos') # Registrations(frameInfos) =>
               \A k \in Keys, cb \in Callbacks :
                   Count(CbsOf(frameInfos', k), cb) > Count(CbsOf(frameInfos, k), cb) =>
                       /\ op'.name = "subscribe"
                       /\ Key(op'.frameID) = k
                       /\ Last(CbsOf(frameInfos', k)) = cb
      ]_vars

\* an unsubscribe has just removed one of the two registrations of a
\* callback, which a message for the frame still calls, once
C18_Witness ==
    /\ op.name = "unsubscribe"
    /\ op.note = "twice"
    /\ Len(frameInfos) = 1
    /\ Len(frameInfos[1].cbs) = 1
    /\ Times(CallsOfUpdate(frameInfos, frameInfos[1].frame), frameInfos[1].cbs[1]) = 1

(***************************************************************************)
(* C19  Cache freshness.  The transform an entry holds is the transform    *)
(* of the last update received for its frame since the entry was created,  *)
(* and none if there was no such update; a subscribe or an unsubscribe     *)
(* changes the transform of no entry that it leaves in place, and a new    *)
(* entry holds none.                                                       *)
(***************************************************************************)
C19_CacheFreshness ==
    /\ [](/\ DOMAIN received = Range(Frames(frameInfos))
          /\ \A i \in 1..Len(frameInfos) :
                 frameInfos[i].transform = received[frameInfos[i].frame])
    /\ [][ ByCaller => \A k \in Keys :
              Tracked(frameInfos', k) =>
                  CachedOf(frameInfos', k) =
                      IF Tracked(frameInfos, k) THEN CachedOf(frameInfos, k)
                      ELSE Undefined
      ]_vars

\* a frame that had received an update lost its entry and has one again,
\* without a transform, next to a frame that holds the last of its updates
C19_Witness ==
    /\ op.name = "subscribe"
    /\ op.note = "again"
    /\ Len(frameInfos) = 2
    /\ frameInfos[1].transform # Undefined
    /\ frameInfos[2].frame = Key(op.frameID)
    /\ frameInfos[2].transform = Undefined
    /\ received[frameInfos[2].frame] = Undefined

====
